---- MODULE Spec2Model ----
(***************************************************************************)
(* Model of ui_attendance.py: face-recognition attendance registration.    *)
(*                                                                         *)
(* The workbook (EXCEL_FILE) holds two sheets.  The registered_faces sheet *)
(* together with the image files it points to is `registry`; the           *)
(* attendance sheet is `book`.  Face encodings are one-dimensional integer *)
(* points in tenths, so that TOLERANCE = 0.6 is the integer 6 and the      *)
(* library's distance is the absolute difference.  The two action labels   *)
(* are written in Latin letters ("shukkin" for the clock-in label,         *)
(* "taikin" for the clock-out label) because module text is ASCII.         *)
(* A timestamp 'YYYY-MM-DD HH:MM:SS' is modelled by its last two fields,   *)
(* <<minute, second>>, compared field by field as the strings compare.     *)
(***************************************************************************)
EXTENDS Integers, Sequences, FiniteSets, TLC

\* ------------------------------------------------------------------ bounds
MaxRows == 2        \* rows of the registered_faces sheet
MaxFaces == 2       \* faces detected in one camera frame
MaxFrames == 2      \* frames read in one capture session
MaxAdded == 1       \* rows a run has appended when the buttons are last pressed
MaxCalls == 3       \* update_attendance calls in the append specification

\* --------------------------------------------------------------- constants
TOLERANCE == 6      \* 0.6, in tenths

Names == {"Employee1", "Employee2"}
Unknown == "Unknown"
\* encodings a live face can have (the registered photos have 0 or 10)
LiveEncs == {4, 10, 20}
\* an image file: absent, or present with the encodings of the faces found in it
Images ==
    { [exists |-> FALSE, faces |-> <<>>],
      [exists |-> TRUE, faces |-> <<>>],
      [exists |-> TRUE, faces |-> <<0>>],
      [exists |-> TRUE, faces |-> <<10, 0>>] }
RegistryRows == [Name : Names, Image : Images]
Labels == {"shukkin", "taikin"}
\* what datetime.now() can return, in seconds: naive local time, which a clock
\* correction or the end of summer time sets back, so a reading is not bound to
\* the one before it.  59 and 60 lie on either side of a minute boundary.
ClockReadings == {59, 60}
\* the exception classes of the flow that derive from Exception
ExceptionSubclasses == {"ValueError", "FileNotFoundError", "cv2.error"}
\* what SIGINT raises at whatever point the handler has reached; the class
\* derives from BaseException only
Interrupt == "KeyboardInterrupt"
\* what can be raised while a frame is processed: a library error, or Interrupt
LoopExceptions == {"cv2.error", Interrupt}
NoExc == "none"

SeqsUpTo(S, n) == UNION { [1..k -> S] : k \in 0..n }

VARIABLES
    pc,                     \* "start", "exited", "aborted", "idle", "capturing"
    registry,               \* registered_faces sheet rows with their image files
    book,                   \* [file, sheet, rows]: the workbook's attendance sheet
    book0,                  \* the workbook as it was when the run began
    registered_faces_data,  \* module global set by __main__
    known_faces,            \* module global set by __main__
    loadError,              \* exception load_registered_faces raised, or "none"
    gui,                    \* create_gui has been called
    action_str,             \* the pressed button's label
    cap,                    \* "none", "open", "released", "finalized"
    windows,                \* the preview window is open
    recognized_names,       \* recognize_faces' local set
    names,                  \* labels of the last matched frame
    face_encodings,         \* live encodings of the last matched frame
    seenEncs,               \* every live encoding matched so far in the session
    frames,                 \* frames read in the session
    exitCause,              \* how recognize_faces stopped in the session
    result,                 \* [kind, value]: what recognize_faces handed back
    dialogs,                \* message boxes shown by the current handler
    raised,                 \* exception raised in the current handler run, or "none"
    caught,                 \* exception caught by handle_attendance, or "none"
    propagated,             \* exception that left handle_attendance, or "none"
    rowsAtPress,            \* attendance rows when the session began
    calls,                  \* update_attendance calls made, in order
    cpc,                    \* per writer: "ready", "stamped", "read", "done", "failed"
    cargs,                  \* per writer process: [Name, Action]
    centry,                 \* per writer process: its new_entry
    cdata,                  \* per writer process: its attendance_data
    order                   \* read/write steps of the writers, in the order taken

loadVars == <<registry, registered_faces_data, known_faces, loadError, gui>>
matchVars == <<recognized_names, names, face_encodings, seenEncs, frames>>
sessionVars == <<pc, action_str, cap, windows, exitCause, result, dialogs,
                 raised, caught, propagated, rowsAtPress>>
concVars == <<cpc, cargs, centry, cdata, order>>
vars == <<loadVars, matchVars, sessionVars, concVars, calls, book, book0>>

\* ------------------------------------------------------------ timestamps
\* datetime.now().strftime('%Y-%m-%d %H:%M:%S'): minute field, then second field
strftime(t) == <<t \div 60, t % 60>>
\* string comparison of two timestamps of that fixed-width format
TsLeq(a, b) == a[1] < b[1] \/ (a[1] = b[1] /\ a[2] <= b[2])

\* ------------------------------------------------------------ the workbook
PriorRow == [Name |-> "Employee1", Timestamp |-> <<0, 0>>, Action |-> "shukkin"]
NoFile == [file |-> FALSE, sheet |-> FALSE, rows |-> <<>>]
NoSheet == [file |-> TRUE, sheet |-> FALSE, rows |-> <<>>]
EmptySheet == [file |-> TRUE, sheet |-> TRUE, rows |-> <<>>]
OneRowSheet == [file |-> TRUE, sheet |-> TRUE, rows |-> <<PriorRow>>]
Books == {NoFile, NoSheet, EmptySheet, OneRowSheet}

check_file_exists(bk) == bk.file

\* pd.read_excel(file_path, sheet_name=sheet_name) on the attendance sheet
read_excel(bk) ==
    IF ~bk.file THEN [exc |-> "FileNotFoundError", rows |-> <<>>]
    ELSE IF ~bk.sheet THEN [exc |-> "ValueError", rows |-> <<>>]
    ELSE [exc |-> NoExc, rows |-> bk.rows]

\* the try/except of update_attendance: which read errors start an empty log
StartsEmpty(exc) == exc = "FileNotFoundError"

\* faulty variant of concat_entry: pd.concat([new_entry, attendance_data])
concat_entry_front(rd, entry) ==
    IF rd.exc = NoExc THEN <<entry>> \o rd.rows ELSE <<entry>>

\* attendance_data after the try/except, given what read_excel did
concat_entry(rd, entry) ==
    IF rd.exc = NoExc THEN Append(rd.rows, entry) ELSE <<entry>>

\* with pd.ExcelWriter(file_path, mode='a', if_sheet_exists='replace'): to_excel
ReplaceSheet(bk, data) == [file |-> TRUE, sheet |-> TRUE, rows |-> data]

\* faulty variant of to_excel that appends the last row of data to whatever the
\* sheet holds at write time (what a locked re-read would do)
to_excel_merge(bk, data) ==
    IF ~bk.file THEN [exc |-> "FileNotFoundError", book |-> bk]
    ELSE [exc |-> NoExc, book |-> ReplaceSheet(bk, Append(bk.rows, data[Len(data)]))]

to_excel(bk, data) ==
    IF ~bk.file THEN [exc |-> "FileNotFoundError", book |-> bk]
    ELSE [exc |-> NoExc, book |-> ReplaceSheet(bk, data)]

\* lines 94-95, given the reading datetime.now() returned
new_entry(name, action, now) ==
    [Name |-> name, Timestamp |-> strftime(now), Action |-> action]

\* one whole call, given the reading its datetime.now() returned
update_attendance(bk, name, action, now) ==
    LET rd == read_excel(bk)
    IN  IF rd.exc # NoExc /\ ~StartsEmpty(rd.exc)
        THEN [exc |-> rd.exc, book |-> bk]
        ELSE to_excel(bk, concat_entry(rd, new_entry(name, action, now)))

\* ------------------------------------------------------- the face registry
\* os.path.exists(img_path)
path_exists(image) == image.exists
\* face_recognition.face_encodings(load_image_file(img_path))
image_face_encodings(image) == image.faces

\* faulty variant of load_rows that skips a row whose image is missing
RECURSIVE load_rows_skip(_, _)
load_rows_skip(rows, acc) ==
    IF rows = <<>> THEN [exc |-> NoExc, known_faces |-> acc]
    ELSE LET image == Head(rows).Image
         IN  IF ~path_exists(image) THEN load_rows_skip(Tail(rows), acc)
             ELSE IF image_face_encodings(image) = <<>>
             THEN [exc |-> "ValueError", known_faces |-> <<>>]
             ELSE load_rows_skip(Tail(rows), Append(acc, image_face_encodings(image)[1]))

\* the for loop of load_registered_faces over the rows still to read, with the
\* encodings collected so far; the first bad row raises
RECURSIVE load_rows(_, _)
load_rows(rows, acc) ==
    IF rows = <<>> THEN [exc |-> NoExc, known_faces |-> acc]
    ELSE LET image == Head(rows).Image
         IN  IF ~path_exists(image)
             THEN [exc |-> "FileNotFoundError", known_faces |-> <<>>]
             ELSE IF image_face_encodings(image) = <<>>
             THEN [exc |-> "ValueError", known_faces |-> <<>>]
             ELSE load_rows(Tail(rows), Append(acc, image_face_encodings(image)[1]))

\* returns (data, known_faces), or raises and returns nothing
load_registered_faces(sheet) ==
    LET r == load_rows(sheet, <<>>)
    IN  [exc |-> r.exc,
         data |-> IF r.exc = NoExc THEN [i \in 1..Len(sheet) |-> [Name |-> sheet[i].Name]]
                  ELSE <<>>,
         known_faces |-> r.known_faces]

\* faulty variant of StartsGui: the load error is swallowed
StartsGuiAlways(loaded) == TRUE

\* __main__: create_gui() is reached only when the load raised nothing
StartsGui(loaded) == loaded.exc = NoExc

\* ------------------------------------------------------------ the matcher
Abs(x) == IF x < 0 THEN -x ELSE x
\* face_recognition.face_distance, one distance per known encoding
face_distance(known, face_encoding) ==
    [k \in 1..Len(known) |-> Abs(known[k] - face_encoding)]
\* face_recognition.compare_faces: list(face_distance(...) <= tolerance)
compare_faces(known, face_encoding, tolerance) ==
    [k \in 1..Len(known) |-> face_distance(known, face_encoding)[k] <= tolerance]

Range(s) == { s[i] : i \in 1..Len(s) }

\* list.index(value), scanning from position i
RECURSIVE list_index(_, _, _)
list_index(lst, value, i) ==
    IF lst[i] = value THEN i ELSE list_index(lst, value, i + 1)

\* faulty variant of first_match_index: the last True instead of the first
last_match_index(matches) ==
    CHOOSE k \in 1..Len(matches) : matches[k] /\ \A j \in (k + 1)..Len(matches) : ~matches[j]

\* matches.index(True)
first_match_index(matches) == list_index(matches, TRUE, 1)

\* the body of "for face_encoding in face_encodings": the label of one face
match_name(known, data, face_encoding) ==
    LET matches == compare_faces(known, face_encoding, TOLERANCE)
    IN  IF TRUE \in Range(matches) THEN data[first_match_index(matches)].Name
        ELSE Unknown

\* whether that body reaches recognized_names.add(name)
has_match(known, face_encoding) ==
    TRUE \in Range(compare_faces(known, face_encoding, TOLERANCE))

\* the names list built for one frame
frame_names(known, data, encodings) ==
    [i \in 1..Len(encodings) |-> match_name(known, data, encodings[i])]

\* faulty variant of frame_recognized: the set is rebuilt on every frame
frame_recognized_reset(known, data, encodings, recognized) ==
    { match_name(known, data, encodings[i]) :
        i \in { j \in 1..Len(encodings) : has_match(known, encodings[j]) } }

\* recognized_names after one frame
frame_recognized(known, data, encodings, recognized) ==
    recognized \cup { match_name(known, data, encodings[i]) :
                        i \in { j \in 1..Len(encodings) : has_match(known, encodings[j]) } }

\* cv2.waitKey(1) & 0xFF == 27
ESC == 27
Keys == {-1, 27, 283}
stop_key(key) == key % 256 = ESC

\* ------------------------------------------------------ handle_attendance
\* action_str = "出勤" if action == 'in' else "退勤"
action_label(action) == IF action = "in" THEN "shukkin" ELSE "taikin"

\* faulty variant of Catches: except FileNotFoundError
CatchesFileNotFoundOnly(exc) == exc = "FileNotFoundError"

\* except Exception as e
Catches(exc) == exc \in ExceptionSubclasses

\* the orders in which "for name in recognized_names" can visit the first n
\* elements of a set
Orders(S, n) ==
    { s \in [1..n -> S] : \A i, j \in 1..n : s[i] = s[j] => i = j }

\* the for loop over update_attendance: stops at the first call that raises.
\* Every call reads the wall clock itself: ts[i] is the reading of the i-th call.
RECURSIVE write_all(_, _, _, _)
write_all(bk, ord, ts, act) ==
    IF ord = <<>> THEN [exc |-> NoExc, book |-> bk]
    ELSE LET r == update_attendance(bk, Head(ord), act, Head(ts))
         IN  IF r.exc # NoExc THEN r ELSE write_all(r.book, Tail(ord), Tail(ts), act)

\* where Interrupt can arrive in the except clause of handle_attendance: not at
\* all, before the error box is shown, or while the error box is up
ExceptStops == {"none", "before box", "after box"}
\* the except clause runs only for an exception it catches
StopsFor(exc) == IF Catches(exc) THEN ExceptStops ELSE {"none"}

\* how the handler ends, given what reached its try block: normally; in its
\* except clause, which Interrupt can cut short; or with the exception passing
\* through to the Tk event loop, which reports it and goes on
HandlerEnd(exc, shown, stop) ==
    /\ pc' = "idle"
    /\ raised' = exc
    /\ IF exc = NoExc
       THEN /\ dialogs' = shown
            /\ caught' = NoExc
            /\ propagated' = NoExc
       ELSE IF Catches(exc)
       THEN /\ dialogs' = IF stop = "before box" THEN shown ELSE Append(shown, "error")
            /\ caught' = exc
            /\ propagated' = IF stop = "none" THEN NoExc ELSE Interrupt
       ELSE /\ dialogs' = shown
            /\ caught' = NoExc
            /\ propagated' = exc

\* handle_attendance once recognize_faces has returned the set S.  Interrupt
\* can end the handler here too: before any box, after the warning box, or in
\* the for loop when `made` of the update_attendance calls have saved the
\* workbook (the last of them included).
AfterReturn(S, act, shown) ==
    \/ /\ HandlerEnd(Interrupt, shown, "none")
       /\ UNCHANGED book
    \/ /\ S = {}
       /\ \E interrupted \in BOOLEAN :
              HandlerEnd(IF interrupted THEN Interrupt ELSE NoExc,
                         Append(shown, "warning"), "none")
       /\ UNCHANGED book
    \/ /\ S # {}
       /\ \E made \in 0..Cardinality(S) :
          \E ord \in Orders(S, made) : \E ts \in [1..made -> ClockReadings] :
          \E interrupted \in (IF made < Cardinality(S) THEN {TRUE} ELSE BOOLEAN) :
             LET w == write_all(book, ord, ts, act)
                 exc == IF w.exc # NoExc THEN w.exc
                        ELSE IF interrupted THEN Interrupt
                        ELSE NoExc
             IN  /\ book' = w.book
                 /\ \E stop \in StopsFor(exc) :
                        HandlerEnd(exc, Append(shown, "success"), stop)

\* the capture object when an exception has taken recognize_faces past
\* cap.release(): a caught exception's traceback, and with it the frame that
\* holds cap, is freed when the except clause ends, and the object's destructor
\* gives the camera back; an exception that leaves the handler, from the try
\* block or from the except clause, keeps both alive
cap_after_raise(exc, stop) ==
    IF Catches(exc) /\ stop = "none" THEN "finalized" ELSE "open"

\* where Interrupt can arrive once the loop has been left by break or by its
\* condition: from then (the error box of line 124 included) until
\* cap.release() is called, between the two release calls, after them and
\* before the return statement, or not at all
ReleasePoints == {"before release", "before destroyAllWindows", "before return", "return"}

\* cap.release(); cv2.destroyAllWindows(); return recognized_names, up to the
\* given point, with the capture object and the preview window as they are
\* when the loop is left
Release(cause, S, point, capNow, shownNow) ==
    /\ cap' = IF point = "before release" THEN capNow ELSE "released"
    /\ windows' = (shownNow /\ point \in {"before release", "before destroyAllWindows"})
    /\ exitCause' = cause
    /\ result' = IF point = "return" THEN [kind |-> "return", value |-> S]
                 ELSE [kind |-> "raise", value |-> {}]

\* the rest of the handler run once the loop has been left
Leave(cause, S, act, shown, capNow, shownNow) ==
    \E point \in ReleasePoints :
        /\ Release(cause, S, point, capNow, shownNow)
        /\ IF point = "return"
           THEN AfterReturn(S, act, shown)
           ELSE /\ HandlerEnd(Interrupt, shown, "none")
                /\ UNCHANGED book

\* ---------------------------------------------------------------- actions
\* __main__ with the workbook missing: check_file_exists fails, exit(1)
MainNoFile ==
    /\ pc = "start"
    /\ ~check_file_exists(book)
    /\ pc' = "exited"
    /\ dialogs' = <<"file error">>
    /\ UNCHANGED <<action_str, cap, windows, exitCause, result, raised, caught,
                   propagated, rowsAtPress>>
    /\ UNCHANGED <<loadVars, matchVars, concVars, calls, book, book0>>

\* __main__ with the workbook present: load the registry, then create_gui()
Main ==
    /\ pc = "start"
    /\ check_file_exists(book)
    /\ LET loaded == load_registered_faces(registry)
       IN  /\ loadError' = loaded.exc
           /\ IF StartsGui(loaded)
              THEN /\ registered_faces_data' = loaded.data
                   /\ known_faces' = loaded.known_faces
                   /\ gui' = TRUE
                   /\ pc' = "idle"
                   /\ UNCHANGED dialogs
              ELSE /\ pc' = "aborted"
                   /\ dialogs' = <<IF loaded.exc = "FileNotFoundError" THEN "file error"
                                    ELSE "face error", "load error", "error">>
                   /\ UNCHANGED <<registered_faces_data, known_faces, gui>>
    /\ UNCHANGED <<action_str, cap, windows, exitCause, result, raised, caught,
                   propagated, rowsAtPress>>
    /\ UNCHANGED <<registry, matchVars, concVars, calls, book, book0>>

\* how a handler run can begin: the camera opens and the loop is entered; the
\* camera does not open and the loop is skipped; or Interrupt arrives before
\* the loop is entered, with the camera not yet or already opened
Starts == {"opened", "notopened", "interrupted before open", "interrupted after open"}

\* a button press: handle_attendance(action) up to the first frame.  When the
\* loop is not entered the handler runs to its end.  A preview window that an
\* earlier session left open stays open until destroyAllWindows is called.
Press(action, start) ==
    /\ pc = "idle"
    /\ gui
    /\ Len(book.rows) - Len(book0.rows) < MaxAdded
    /\ action_str' = action_label(action)
    /\ recognized_names' = {}
    /\ names' = <<>>
    /\ face_encodings' = <<>>
    /\ seenEncs' = {}
    /\ frames' = 0
    /\ rowsAtPress' = book.rows
    /\ IF start = "opened"
       THEN /\ pc' = "capturing"
            /\ cap' = "open"
            /\ exitCause' = "none"
            /\ result' = [kind |-> "none", value |-> {}]
            /\ dialogs' = <<>>
            /\ raised' = NoExc
            /\ caught' = NoExc
            /\ propagated' = NoExc
            /\ UNCHANGED <<windows, book>>
       ELSE IF start = "notopened"
       THEN Leave("notopened", {}, action_label(action), <<>>, "none", windows)
       ELSE /\ cap' = IF start = "interrupted after open" THEN "open" ELSE "none"
            /\ exitCause' = "none"
            /\ result' = [kind |-> "raise", value |-> {}]
            /\ HandlerEnd(Interrupt, <<>>, "none")
            /\ UNCHANGED <<windows, book>>
    /\ UNCHANGED <<loadVars, concVars, calls, book0>>

\* cap.isOpened() is False when the loop condition is evaluated again after a
\* frame: the loop ends with no box, then release, return and the handler's end
LoopConditionFalse ==
    /\ pc = "capturing"
    /\ frames >= 1
    /\ Leave("closed", recognized_names, action_str, <<>>, "none", windows)
    /\ UNCHANGED <<action_str, rowsAtPress, frames>>
    /\ UNCHANGED <<loadVars, recognized_names, names, face_encodings, seenEncs,
                   concVars, calls, book0>>

\* cap.read() yields no frame: the error box, break, release, and the handler's end
FrameReadFails ==
    /\ pc = "capturing"
    /\ frames' = frames + 1
    /\ Leave("readfail", recognized_names, action_str, <<"camera error">>, cap, windows)
    /\ UNCHANGED <<action_str, rowsAtPress>>
    /\ UNCHANGED <<loadVars, recognized_names, names, face_encodings, seenEncs,
                   concVars, calls, book0>>

\* an exception is raised before face_encodings is assigned (cap.read,
\* cvtColor, face_locations, face_encodings, or SIGINT during them): it leaves
\* recognize_faces before cap.release() and cv2.destroyAllWindows() and
\* reaches handle_attendance
FrameRaises(exc, stop) ==
    /\ pc = "capturing"
    /\ frames' = frames + 1
    /\ exitCause' = "exception"
    /\ result' = [kind |-> "raise", value |-> {}]
    /\ HandlerEnd(exc, dialogs, stop)
    /\ cap' = cap_after_raise(exc, stop)
    /\ UNCHANGED <<action_str, windows, rowsAtPress>>
    /\ UNCHANGED <<loadVars, recognized_names, names, face_encodings, seenEncs,
                   concVars, calls, book, book0>>

\* where an exception can be raised between the assignment of face_encodings
\* and the end of the matching loop, with `done` faces fully handled: before
\* names = [] (line 131); in the handling of the next face up to the test of
\* its matches (lines 132-137); or between recognized_names.add(name) and
\* names.append(name) (lines 138-139), when the next face has a match
MatchPoints(known, encodings) ==
    {[at |-> "names = []", done |-> 0]}
    \cup { [at |-> "compare_faces", done |-> d] : d \in 0..(Len(encodings) - 1) }
    \cup { [at |-> "names.append", done |-> d] :
             d \in { e \in 0..(Len(encodings) - 1) : has_match(known, encodings[e + 1]) } }

\* between two statements that call nothing only Interrupt can be raised
RaisedAt(point) ==
    IF point.at = "compare_faces" THEN LoopExceptions ELSE {Interrupt}

\* an exception is raised while the frame's faces are matched: the locals are
\* left as the statements executed so far have set them
FrameRaisesInMatch(encodings, point, exc, stop) ==
    /\ pc = "capturing"
    /\ frames' = frames + 1
    /\ face_encodings' = encodings
    /\ IF point.at = "names = []"
       THEN UNCHANGED <<names, seenEncs, recognized_names>>
       ELSE LET added == IF point.at = "names.append" THEN point.done + 1 ELSE point.done
            IN  /\ names' = frame_names(known_faces, registered_faces_data,
                                        SubSeq(encodings, 1, point.done))
                /\ seenEncs' = seenEncs \cup Range(SubSeq(encodings, 1, added))
                /\ recognized_names' =
                       frame_recognized(known_faces, registered_faces_data,
                                        SubSeq(encodings, 1, added), recognized_names)
    /\ exitCause' = "exception"
    /\ result' = [kind |-> "raise", value |-> {}]
    /\ HandlerEnd(exc, dialogs, stop)
    /\ cap' = cap_after_raise(exc, stop)
    /\ UNCHANGED <<action_str, windows, rowsAtPress>>
    /\ UNCHANGED <<loadVars, concVars, calls, book, book0>>

\* an exception is raised once the frame's faces are matched: while the frame
\* is annotated and handed to imshow (shown = FALSE), or by waitKey after imshow
\* has put the window on the screen (shown = TRUE)
FrameRaisesAfterMatch(encodings, exc, shown, stop) ==
    /\ pc = "capturing"
    /\ frames' = frames + 1
    /\ face_encodings' = encodings
    /\ names' = frame_names(known_faces, registered_faces_data, encodings)
    /\ seenEncs' = seenEncs \cup Range(encodings)
    /\ recognized_names' =
           frame_recognized(known_faces, registered_faces_data, encodings, recognized_names)
    /\ windows' = (windows \/ shown)
    /\ exitCause' = "exception"
    /\ result' = [kind |-> "raise", value |-> {}]
    /\ HandlerEnd(exc, dialogs, stop)
    /\ cap' = cap_after_raise(exc, stop)
    /\ UNCHANGED <<action_str, rowsAtPress>>
    /\ UNCHANGED <<loadVars, concVars, calls, book, book0>>

\* one full iteration: match every face, annotate, show, poll the keyboard
Frame(encodings, key) ==
    /\ pc = "capturing"
    /\ frames' = frames + 1
    /\ face_encodings' = encodings
    /\ names' = frame_names(known_faces, registered_faces_data, encodings)
    /\ seenEncs' = seenEncs \cup Range(encodings)
    /\ recognized_names' =
           frame_recognized(known_faces, registered_faces_data, encodings, recognized_names)
    /\ IF stop_key(key)
       THEN Leave("esc", recognized_names', action_str, <<>>, cap, TRUE)
       ELSE /\ frames + 1 < MaxFrames
            /\ windows' = TRUE
            /\ UNCHANGED <<pc, cap, exitCause, result, dialogs, raised, caught,
                           propagated, book>>
    /\ UNCHANGED <<action_str, rowsAtPress>>
    /\ UNCHANGED <<loadVars, concVars, calls, book0>>

LoadDefaults ==
    /\ registered_faces_data = <<>>
    /\ known_faces = <<>>
    /\ loadError = NoExc
    /\ gui = FALSE

MatchDefaults ==
    /\ recognized_names = {}
    /\ names = <<>>
    /\ face_encodings = <<>>
    /\ seenEncs = {}
    /\ frames = 0

SessionDefaults ==
    /\ action_str = "none"
    /\ cap = "none"
    /\ windows = FALSE
    /\ exitCause = "none"
    /\ result = [kind |-> "none", value |-> {}]
    /\ dialogs = <<>>
    /\ raised = NoExc
    /\ caught = NoExc
    /\ propagated = NoExc
    /\ rowsAtPress = <<>>

ConcDefaults ==
    /\ cpc = <<>>
    /\ cargs = <<>>
    /\ centry = <<>>
    /\ cdata = <<>>
    /\ order = <<>>

\* the face lists a session's frames are drawn from: one list stands for all
\* its reorderings and repetitions
SessionFrames ==
    { s \in SeqsUpTo(LiveEncs, MaxFaces) : \A i, j \in 1..Len(s) : i < j => s[i] < s[j] }

\* the registered_faces sheets the program is started on: every sheet whose
\* load fails, and of those that load the ones with every Name on one row only
SessionRegistries ==
    { r \in SeqsUpTo(RegistryRows, MaxRows) :
        \/ load_registered_faces(r).exc # NoExc
        \/ \A i, j \in 1..Len(r) : r[i].Name = r[j].Name => i = j }

\* the program about to run __main__, with the workbook absent, without its
\* attendance sheet, or with an attendance sheet of one prior row
Init ==
    /\ pc = "start"
    /\ registry \in SessionRegistries
    /\ book \in {NoFile, NoSheet, OneRowSheet}
    /\ book0 = book
    /\ calls = <<>>
    /\ LoadDefaults /\ MatchDefaults /\ SessionDefaults /\ ConcDefaults

Next ==
    \/ MainNoFile
    \/ Main
    \/ \E action \in {"in", "out"} : \E start \in Starts : Press(action, start)
    \/ LoopConditionFalse
    \/ FrameReadFails
    \/ \E encodings \in SessionFrames : \E point \in MatchPoints(known_faces, encodings) :
       \E exc \in RaisedAt(point) : \E stop \in StopsFor(exc) :
          FrameRaisesInMatch(encodings, point, exc, stop)
    \/ \E exc \in LoopExceptions : \E stop \in StopsFor(exc) : FrameRaises(exc, stop)
    \/ \E encodings \in SessionFrames : \E exc \in LoopExceptions : \E shown \in BOOLEAN :
       \E stop \in StopsFor(exc) : FrameRaisesAfterMatch(encodings, exc, shown, stop)
    \/ \E encodings \in SessionFrames : \E key \in Keys : Frame(encodings, key)

Spec == Init /\ [][Next]_vars

\* ------------------------------------------- startup on its own (C4)
\* __main__ up to create_gui(), on every registered_faces sheet and workbook.
LoadInit ==
    /\ pc = "start"
    /\ registry \in SeqsUpTo(RegistryRows, MaxRows)
    /\ book \in Books
    /\ book0 = book
    /\ calls = <<>>
    /\ LoadDefaults /\ MatchDefaults /\ SessionDefaults /\ ConcDefaults

LoadNext == MainNoFile \/ Main

SpecLoad == LoadInit /\ [][LoadNext]_vars

\* ------------------------------------------- the matcher on its own (C1)
\* The per-frame matching loop of recognize_faces, applied to every list of
\* live encodings, on every registry that loads.
LoadableRegistries ==
    { r \in SeqsUpTo(RegistryRows, MaxRows) : load_registered_faces(r).exc = NoExc }

MatchInit ==
    /\ pc = "capturing"
    /\ registry \in LoadableRegistries
    /\ registered_faces_data = load_registered_faces(registry).data
    /\ known_faces = load_registered_faces(registry).known_faces
    /\ loadError = NoExc
    /\ gui = TRUE
    /\ book = OneRowSheet
    /\ book0 = book
    /\ calls = <<>>
    /\ MatchDefaults /\ SessionDefaults /\ ConcDefaults

\* lines 129-139 for one frame's face_encodings
MatchFrame(encodings) ==
    /\ frames < MaxFrames
    /\ frames' = frames + 1
    /\ face_encodings' = encodings
    /\ names' = frame_names(known_faces, registered_faces_data, encodings)
    /\ recognized_names' =
           frame_recognized(known_faces, registered_faces_data, encodings, recognized_names)
    /\ seenEncs' = seenEncs \cup Range(encodings)
    /\ UNCHANGED <<loadVars, sessionVars, concVars, calls, book, book0>>

MatchNext == \E encodings \in SeqsUpTo(LiveEncs, MaxFaces) : MatchFrame(encodings)

SpecMatch == MatchInit /\ [][MatchNext]_vars

\* ------------------------------- update_attendance called repeatedly (C3, C7)
\* One process calling update_attendance on any workbook; each call gets its
\* own reading of the wall clock.
AppendInit ==
    /\ pc = "idle"
    /\ registry = <<>>
    /\ book \in Books
    /\ book0 = book
    /\ calls = <<>>
    /\ LoadDefaults /\ MatchDefaults /\ SessionDefaults /\ ConcDefaults

AppendCall(name, action, now) ==
    /\ Len(calls) < MaxCalls
    /\ LET r == update_attendance(book, name, action, now)
       IN  /\ book' = r.book
           /\ calls' = Append(calls, [Name |-> name, Action |-> action,
                                      now |-> now, exc |-> r.exc])
    /\ UNCHANGED <<loadVars, matchVars, sessionVars, concVars, book0>>

AppendNext ==
    \E name \in Names : \E action \in Labels : \E now \in ClockReadings :
        AppendCall(name, action, now)

SpecAppend == AppendInit /\ [][AppendNext]_vars

\* ------------------------------ two instances writing the same workbook (C10)
\* Each instance runs update_attendance in three steps, as the code does: the
\* clock reading that makes new_entry (lines 94-95), the read of the sheet
\* (lines 97-101) and the rewrite of the sheet (lines 103-104).
Writers == {1, 2}

ConcInit ==
    /\ pc = "idle"
    /\ registry = <<>>
    /\ book \in Books
    /\ book0 = book
    /\ calls = <<>>
    /\ cpc = [w \in Writers |-> "ready"]
    /\ cargs \in [Writers -> [Name : Names, Action : Labels]]
    /\ centry = [w \in Writers |-> <<>>]
    /\ cdata = [w \in Writers |-> <<>>]
    /\ order = <<>>
    /\ LoadDefaults /\ MatchDefaults /\ SessionDefaults

StampStep(w, now) ==
    /\ cpc[w] = "ready"
    /\ cpc' = [cpc EXCEPT ![w] = "stamped"]
    /\ centry' = [centry EXCEPT ![w] = new_entry(cargs[w].Name, cargs[w].Action, now)]
    /\ UNCHANGED <<loadVars, matchVars, sessionVars, cargs, cdata, order, calls,
                   book, book0>>

ReadStep(w) ==
    /\ cpc[w] = "stamped"
    /\ LET rd == read_excel(book)
       IN  IF rd.exc # NoExc /\ ~StartsEmpty(rd.exc)
           THEN /\ cpc' = [cpc EXCEPT ![w] = "failed"]
                /\ UNCHANGED cdata
           ELSE /\ cpc' = [cpc EXCEPT ![w] = "read"]
                /\ cdata' = [cdata EXCEPT ![w] = concat_entry(rd, centry[w])]
    /\ order' = Append(order, <<"read", w>>)
    /\ UNCHANGED <<loadVars, matchVars, sessionVars, cargs, centry, calls, book, book0>>

WriteStep(w) ==
    /\ cpc[w] = "read"
    /\ LET wr == to_excel(book, cdata[w])
       IN  /\ book' = wr.book
           /\ cpc' = [cpc EXCEPT ![w] = IF wr.exc = NoExc THEN "done" ELSE "failed"]
    /\ order' = Append(order, <<"write", w>>)
    /\ UNCHANGED <<loadVars, matchVars, sessionVars, cargs, centry, cdata, calls, book0>>

ConcNext ==
    \/ \E w \in Writers : \E now \in ClockReadings : StampStep(w, now)
    \/ \E w \in Writers : ReadStep(w)
    \/ \E w \in Writers : WriteStep(w)

SpecConc == ConcInit /\ [][ConcNext]_vars

\* ================================================================ claims
\* the registry indexes whose encoding is within TOLERANCE of a live encoding
Within(e) == { k \in 1..Len(registry) : Abs(registry[k].Image.faces[1] - e) <= TOLERANCE }
\* the lowest of them
Lowest(S) == CHOOSE k \in S : \A j \in S : k <= j
\* the names a set of live encodings stands for under the first-match policy
Accumulated(seen) == { registry[Lowest(Within(e))].Name : e \in { x \in seen : Within(x) # {} } }

\* C1: every face of a frame is labelled with the Name of the lowest registry
\* index that is within tolerance, which is also added to the session's set, and
\* with "Unknown" when no index is; the set holds nothing but such names.
C1_FirstMatchWins ==
    /\ Len(names) = Len(face_encodings)
    /\ \A i \in 1..Len(face_encodings) :
         LET S == Within(face_encodings[i])
         IN  IF S # {}
             THEN /\ names[i] = registry[Lowest(S)].Name
                  /\ names[i] \in recognized_names
             ELSE names[i] = Unknown
    /\ recognized_names = Accumulated(seenEncs)

\* a face for which a later row is strictly closer than the first row in
\* tolerance, beside a face that matches no row
C1_Witness ==
    /\ \E i \in 1..Len(face_encodings) : \E k \in Within(face_encodings[i]) :
         /\ k > Lowest(Within(face_encodings[i]))
         /\ Abs(known_faces[k] - face_encodings[i])
              < Abs(known_faces[Lowest(Within(face_encodings[i]))] - face_encodings[i])
         /\ registry[k].Name # names[i]
    /\ \E i \in 1..Len(face_encodings) : Within(face_encodings[i]) = {} /\ names[i] = Unknown

\* C2: when a session's handler has ended, the attendance sheet holds the rows
\* it held at the button press followed by exactly one row per name that
\* recognize_faces returned, each with the button's label.
C2_OneRowPerPerson ==
    (pc = "idle" /\ result.kind = "return") =>
        LET old == Len(rowsAtPress)
            added == { i \in 1..Len(book.rows) : i > old }
        IN  /\ Len(book.rows) = old + Cardinality(result.value)
            /\ \A i \in 1..old : book.rows[i] = rowsAtPress[i]
            /\ { book.rows[i].Name : i \in added } = result.value
            /\ \A i \in added : book.rows[i].Action = action_str

\* C3 as stated: on a workbook that had the attendance sheet, after N calls the
\* sheet holds the prior rows, unchanged and in order, then one row per call in
\* call order, with timestamps that never decrease.
C3_AppendOnly ==
    book0.sheet =>
        LET old == Len(book0.rows)
            n == Len(calls)
        IN  /\ Len(book.rows) = old + n
            /\ \A i \in 1..old : book.rows[i] = book0.rows[i]
            /\ \A i \in 1..n :
                 /\ calls[i].exc = NoExc
                 /\ book.rows[old + i].Name = calls[i].Name
                 /\ book.rows[old + i].Action = calls[i].Action
            /\ \A i \in 1..n : \A j \in i..n :
                 TsLeq(book.rows[old + i].Timestamp, book.rows[old + j].Timestamp)

\* C3 amended: on a workbook that had the attendance sheet, after N calls the
\* sheet holds the prior rows, unchanged and in order, then one row per call in
\* call order, each with the formatted wall-clock reading of its call; two new
\* rows' timestamps are in order exactly when the readings of their calls are.
C3_AppendInCallOrder ==
    book0.sheet =>
        LET old == Len(book0.rows)
            n == Len(calls)
        IN  /\ Len(book.rows) = old + n
            /\ \A i \in 1..old : book.rows[i] = book0.rows[i]
            /\ \A i \in 1..n :
                 /\ calls[i].exc = NoExc
                 /\ book.rows[old + i].Name = calls[i].Name
                 /\ book.rows[old + i].Action = calls[i].Action
                 /\ book.rows[old + i].Timestamp = strftime(calls[i].now)
            /\ \A i \in 1..n : \A j \in 1..n :
                 TsLeq(book.rows[old + i].Timestamp, book.rows[old + j].Timestamp)
                    <=> calls[i].now <= calls[j].now

\* three calls on a sheet with a prior row: two in the same second, the third
\* after the minute has turned
C3_Witness ==
    /\ book0 = OneRowSheet
    /\ Len(calls) = 3
    /\ Len(book.rows) = 4
    /\ calls[1].now = calls[2].now
    /\ book.rows[2].Timestamp = book.rows[3].Timestamp
    /\ book.rows[3].Timestamp[1] < book.rows[4].Timestamp[1]

\* C4: once __main__ has loaded a present workbook, either every row's image
\* exists and shows a face, and known_faces holds one encoding per row in row
\* order (the first face of row i's image at index i); or the load raised and
\* neither rows nor encodings were handed back.  A missing image always raises.
C4_LoadAllOrNothing ==
    (pc # "start" /\ book0.file) =>
        IF \A i \in 1..Len(registry) :
               registry[i].Image.exists /\ registry[i].Image.faces # <<>>
        THEN /\ loadError = NoExc
             /\ Len(known_faces) = Len(registry)
             /\ Len(registered_faces_data) = Len(registry)
             /\ \A i \in 1..Len(registry) :
                  /\ known_faces[i] = registry[i].Image.faces[1]
                  /\ registered_faces_data[i].Name = registry[i].Name
        ELSE /\ loadError # NoExc
             /\ known_faces = <<>>
             /\ registered_faces_data = <<>>

\* a good first row followed by a row whose image is missing
C4_Witness ==
    /\ pc = "aborted"
    /\ Len(registry) = 2
    /\ registry[1].Image.exists /\ registry[1].Image.faces # <<>>
    /\ ~registry[2].Image.exists
    /\ loadError = "FileNotFoundError"
    /\ known_faces = <<>>

\* C5: a run whose registry load raised has no GUI, has had no button handler
\* run and no capture, and its workbook is as it was.
C5_LoadFailureIsFatal ==
    loadError # NoExc =>
        /\ pc = "aborted"
        /\ ~gui
        /\ action_str = "none"
        /\ exitCause = "none"
        /\ cap = "none"
        /\ book = book0

\* the load stopped at an image without a face
C5_Witness ==
    /\ pc = "aborted"
    /\ loadError = "ValueError"
    /\ \E i \in 1..Len(registry) : registry[i].Image.exists /\ registry[i].Image.faces = <<>>

\* C6: whenever recognize_faces has stopped, by whatever path, the camera is
\* not held and the preview window is closed.
C6_ResourcesReleased ==
    exitCause # "none" => (cap # "open" /\ ~windows)

\* C7: a first call on a workbook without the attendance sheet, or without the
\* file, succeeds and leaves a sheet holding exactly the new row.
C7_StartsFromEmpty ==
    (~book0.sheet /\ Len(calls) = 1) =>
        /\ calls[1].exc = NoExc
        /\ book.file /\ book.sheet
        /\ book.rows = <<new_entry(calls[1].Name, calls[1].Action, calls[1].now)>>

\* the attendance write of the current handler run met a workbook without the
\* attendance sheet
WriteRaised == result.kind = "return" /\ result.value # {} /\ ~book.sheet
\* a session that has just begun starts from nothing
FreshSession ==
    (pc = "capturing" /\ frames = 0) =>
        /\ recognized_names = {}
        /\ result.kind = "none"
        /\ raised = NoExc
        /\ caught = NoExc
        /\ dialogs = <<>>

\* C8 as stated: no exception leaves handle_attendance; a flow in which one was
\* raised (in the capture loop or by the attendance write) has ended with that
\* exception caught, the error dialog shown and the GUI idle; and a session
\* that has just begun starts from nothing.
C8_ExceptionsCaught ==
    /\ propagated = NoExc
    /\ (exitCause = "exception" \/ WriteRaised) => raised # NoExc
    /\ raised # NoExc =>
            /\ pc = "idle"
            /\ caught = raised
            /\ dialogs # <<>> /\ dialogs[Len(dialogs)] = "error"
    /\ FreshSession

\* C8 amended: an exception of a class deriving from Exception raised in the
\* flow is always caught by handle_attendance, and unless KeyboardInterrupt
\* arrives in the except clause the error dialog is shown and nothing leaves
\* the handler; KeyboardInterrupt is the only exception that leaves the
\* handler, and when it is what the flow raised it is not caught and no error
\* dialog is shown; in every case the GUI is idle afterwards, and a session
\* that has just begun starts from nothing.
C8_ExceptionSubclassesCaught ==
    /\ (exitCause = "exception" \/ WriteRaised) => raised # NoExc
    /\ propagated \in {NoExc, Interrupt}
    /\ raised \in ExceptionSubclasses =>
            /\ pc = "idle"
            /\ caught = raised
            /\ propagated = NoExc =>
                    (dialogs # <<>> /\ dialogs[Len(dialogs)] = "error")
    /\ (raised # NoExc /\ raised \notin ExceptionSubclasses) =>
            /\ raised = Interrupt
            /\ pc = "idle"
            /\ caught = NoExc
            /\ propagated = Interrupt
            /\ "error" \notin Range(dialogs)
    /\ raised = NoExc => (caught = NoExc /\ propagated = NoExc)
    /\ FreshSession

\* a library error raised on the second frame of a session has been caught:
\* the error dialog is up, the GUI is idle
C8_Witness ==
    /\ pc = "idle"
    /\ gui
    /\ exitCause = "exception"
    /\ frames = 2
    /\ raised = "cv2.error"
    /\ caught = "cv2.error"
    /\ propagated = NoExc
    /\ dialogs = <<"error">>

\* C9 as stated: a capture loop that ran has stopped by ESC or by a read
\* failure, and has returned the set accumulated over the frames it matched.
C9_OnlyStopOrReadFailure ==
    (pc = "idle" /\ exitCause \notin {"none", "notopened"}) =>
        /\ exitCause \in {"esc", "readfail"}
        /\ result = [kind |-> "return", value |-> Accumulated(seenEncs)]

\* C9 amended: a capture loop stops by ESC, by a read failure, by the camera
\* no longer reporting open when the loop condition is evaluated again, or by
\* an exception raised while a frame is processed.  In the first three cases
\* it returns the set accumulated over the frames it matched, unless
\* KeyboardInterrupt arrives before the return statement is reached; in the
\* fourth it returns nothing and the exception passes to handle_attendance.  A
\* camera that did not open gives no frame and, with the same exception, the
\* empty set.
C9_StopReadFailureOrException ==
    /\ pc = "capturing" => (exitCause = "none" /\ result.kind = "none")
    /\ (pc = "idle" /\ exitCause # "none") =>
         \/ /\ exitCause \in {"esc", "readfail", "closed"}
            /\ frames >= 1
            /\ \/ result = [kind |-> "return", value |-> Accumulated(seenEncs)]
               \/ result.kind = "raise" /\ raised = Interrupt
         \/ /\ exitCause = "notopened"
            /\ frames = 0
            /\ \/ result = [kind |-> "return", value |-> {}]
               \/ result.kind = "raise" /\ raised = Interrupt
         \/ /\ exitCause = "exception"
            /\ frames >= 1
            /\ result.kind = "raise"
            /\ raised \in LoopExceptions

\* a first frame with a known face, then a read failure: the set is returned
C9_Witness ==
    /\ pc = "idle"
    /\ exitCause = "readfail"
    /\ frames = 2
    /\ seenEncs # {}
    /\ result.kind = "return"
    /\ result.value # {}

\* C10: when both instances have completed, the sheet is the attendance_data of
\* the one that wrote last: with both reads before both writes it holds the
\* prior rows and only that writer's new row; otherwise it holds both new rows.
BothDone == \A w \in Writers : cpc[w] = "done"
ReadsFirst == Len(order) >= 2 /\ order[1][1] = "read" /\ order[2][1] = "read"
C10_LastWriterWins ==
    BothDone =>
        LET last == order[Len(order)][2]
            other == CHOOSE w \in Writers : w # last
            entry(w) == cdata[w][Len(cdata[w])]
        IN  /\ book.rows = cdata[last]
            /\ IF ReadsFirst
               THEN book.rows = Append(book0.rows, entry(last))
               ELSE book.rows = Append(Append(book0.rows, entry(other)), entry(last))

\* the lost update: both calls completed, two different rows were written, and
\* the sheet has gained one row
C10_Witness ==
    /\ BothDone
    /\ cargs[1] # cargs[2]
    /\ Len(book.rows) = Len(book0.rows) + 1

====
